---- MODULE Spec2Model ----
(***************************************************************************)
(* A model of the loyalty application src/app.py: the PointsLedger table,  *)
(* the tier column of the Customers table, and the button handlers of the  *)
(* three writing pages (Add Points, Redeem Reward, Customer Service), each *)
(* split at its store operations, since every helper opens a connection of *)
(* its own and every browser session runs the script in its own thread.    *)
(***************************************************************************)
EXTENDS Integers, Sequences, FiniteSets, TLC

(* ------------------------------------------------------------------ *)
(* Program constants                                                    *)
(* ------------------------------------------------------------------ *)

POINTS_PER_DOLLAR == 10

GOLD_TIER_THRESHOLD == 500

(* ------------------------------------------------------------------ *)
(* Bounds of the model                                                  *)
(* ------------------------------------------------------------------ *)

\* the ledger holds at most this many entries when the script runs happen
\* one at a time
MaxLedger == 2

\* the ledger holds at most this many entries when two sessions interleave
MaxLedgerConcurrent == 3

\* the ledger holds at most this many entries in the end-to-end scenario
MaxLedgerScenario == 4

\* the wall clock advances at most this many times
MaxTick == 1

\* the year of the first instant of the clock
BaseYear == 2024

(* ------------------------------------------------------------------ *)
(* Inputs                                                               *)
(* ------------------------------------------------------------------ *)

\* the browser sessions, each running the script in a thread of its own
Sessions == {1, 2}

\* customer_id values of the rows of the Customers table
Customers == {1, 2}

\* the email column of the Customers table: email -> customer_id
EmailOf == [alice |-> 1, bob |-> 2]

\* what the email text box may hold: empty, a customer's email, an unknown one
EmailInputs == {"", "alice", "bob", "nobody"}

\* the order number text box: empty or filled
OrderInputs == {"", "A100"}

\* the reason text area: empty or filled
ReasonInputs == {"", "goodwill"}

\* What the operators type when the script runs happen one at a time.
\* Purchase amounts are in cents (the number box has min_value 0.01):
\* $0.01, $499.99 and $500.00; adjustments are integers (the number box has step 1).
SerialInputs ==
    [emails  |-> EmailInputs,
     amounts |-> {1, 49999, 50000},
     adjusts |-> {-150, 0, 5000},
     rewards |-> {"r80"},
     cap     |-> MaxLedger]

\* What two operators working on one customer type: purchases of $10.00 and
\* $500.00, and redemptions.
ConcurrentInputs ==
    [emails  |-> {"alice"},
     amounts |-> {1000, 50000},
     adjusts |-> {},
     rewards |-> {"r80"},
     cap     |-> MaxLedgerConcurrent]

\* What the operator types in the end-to-end scenario: purchases of $100.00
\* and $450.00 for one customer, redemptions of the rewards that cost 800
\* and 10000 points.
ScenarioInputs ==
    [emails  |-> {"alice"},
     amounts |-> {10000, 45000},
     adjusts |-> {},
     rewards |-> {"r800", "r10000"},
     cap     |-> MaxLedgerScenario]

\* the rows of the Rewards table: reward_id -> points_cost
Rewards == [r80 |-> 80, r800 |-> 800, r10000 |-> 10000]

Tiers == {"Standard", "Gold"}

VARIABLES
    ledger,   \* the PointsLedger table, in insertion order
    tier,     \* the tier column of the Customers table, by customer_id
    clock,    \* the number of times the wall clock advanced
    pc,       \* where each session's script run stands
    loc,      \* the local variables of each session's script run
    msgs      \* the notices each session's script run has rendered

vars == <<ledger, tier, clock, pc, loc, msgs>>

(* ------------------------------------------------------------------ *)
(* Time                                                                 *)
(* ------------------------------------------------------------------ *)

\* The instant of clock value k, as the fields of 'YYYY-MM-DD HH:MM:SS'.
\* The clock steps over the year boundaries: the last second of a year,
\* then the first second of the next.
Instant(k) ==
    IF k % 2 = 0
    THEN <<BaseYear + (k \div 2), 12, 31, 23, 59, 59>>
    ELSE <<BaseYear + ((k + 1) \div 2), 1, 1, 0, 0, 0>>

\* datetime.now().year
CurrentYear == Instant(clock)[1]

\* the timestamp the store gives a new row
CurrentTimestamp == Instant(clock)

\* Comparison of two timestamps of the fixed-width text format: the order of
\* the strings is the lexicographic order of their fields.
RECURSIVE TextLE(_, _)
TextLE(a, b) ==
    IF a = <<>> THEN TRUE
    ELSE IF Head(a) < Head(b) THEN TRUE
    ELSE IF Head(a) > Head(b) THEN FALSE
    ELSE TextLE(Tail(a), Tail(b))

\* SQL: x BETWEEN lo AND hi
Between(x, lo, hi) == TextLE(lo, x) /\ TextLE(x, hi)

(* ------------------------------------------------------------------ *)
(* Store queries                                                        *)
(* ------------------------------------------------------------------ *)

NULL == [null |-> TRUE, val |-> 0]

RECURSIVE SumPointsChange(_)
SumPointsChange(rows) ==
    IF rows = <<>> THEN 0
    ELSE Head(rows).points_change + SumPointsChange(Tail(rows))

\* SQL: SELECT SUM(points_change) over the rows; NULL when there is none
SqlSum(rows) ==
    IF rows = <<>> THEN NULL
    ELSE [null |-> FALSE, val |-> SumPointsChange(rows)]

\* result[0] if result and result[0] is not None else 0
OrZero(result) == IF result.null THEN 0 ELSE result.val

\* BalanceRow without its WHERE clause: every customer's rows are summed
BalanceRowAnyCustomer(customer_id, e) == TRUE

\* WHERE customer_id = ?
BalanceRow(customer_id, e) == e.customer_id = customer_id

get_customer_point_balance(customer_id) ==
    LET Where(e) == BalanceRow(customer_id, e)
    IN  OrZero(SqlSum(SelectSeq(ledger, Where)))

\* get_customer_by_email that answers an unknown email with an empty row
get_customer_by_email_empty_row(email) ==
    IF email \in DOMAIN EmailOf
    THEN [found |-> TRUE, customer_id |-> EmailOf[email]]
    ELSE [found |-> TRUE, customer_id |-> 0]

\* SELECT * FROM Customers WHERE email = ?, fetchone: the row or None
get_customer_by_email(email) ==
    IF email \in DOMAIN EmailOf
    THEN [found |-> TRUE, customer_id |-> EmailOf[email]]
    ELSE [found |-> FALSE, customer_id |-> 0]

(* ------------------------------------------------------------------ *)
(* Spend and tier                                                       *)
(* ------------------------------------------------------------------ *)

\* f"{current_year}-01-01 00:00:00"
start_of_year(current_year) == <<current_year, 1, 1, 0, 0, 0>>

\* end_of_year without the time of day: f"{current_year}-12-31 00:00:00"
end_of_year_midnight(current_year) == <<current_year, 12, 31, 0, 0, 0>>

\* f"{current_year}-12-31 23:59:59"
end_of_year(current_year) == <<current_year, 12, 31, 23, 59, 59>>

\* SpendRow without the customer filter
SpendRowAnyCustomer(customer_id, e, lo, hi) ==
    /\ e.transaction_type = "earn"
    /\ Between(e.timestamp, lo, hi)

\* SpendRow without the transaction_type condition
SpendRowAnyType(customer_id, e, lo, hi) ==
    /\ e.customer_id = customer_id
    /\ Between(e.timestamp, lo, hi)

\* WHERE customer_id = ? AND transaction_type = 'earn' AND timestamp BETWEEN ? AND ?
SpendRow(customer_id, e, lo, hi) ==
    /\ e.customer_id = customer_id
    /\ e.transaction_type = "earn"
    /\ Between(e.timestamp, lo, hi)

\* a / b of Python, kept exact as a fraction (b > 0)
TrueDiv(a, b) == [num |-> a, den |-> b]

\* q >= n for a fraction q and an integer n
FracGE(q, n) == q.num >= n * q.den

\* the spending of the customer in the given year, from the given table
SpendingInYear(rows, customer_id, year) ==
    LET Where(e) == SpendRow(customer_id, e, start_of_year(year), end_of_year(year))
        points_earned_this_year == OrZero(SqlSum(SelectSeq(rows, Where)))
    IN  TrueDiv(points_earned_this_year, POINTS_PER_DOLLAR)

get_customer_spending_this_year(customer_id, current_year) ==
    SpendingInYear(ledger, customer_id, current_year)

\* NewTier with a strict comparison
NewTierStrict(spending) ==
    IF spending.num > GOLD_TIER_THRESHOLD * spending.den THEN "Gold" ELSE "Standard"

\* "Gold" if spending >= GOLD_TIER_THRESHOLD else "Standard"
NewTier(spending) ==
    IF FracGE(spending, GOLD_TIER_THRESHOLD) THEN "Gold" ELSE "Standard"

(* ------------------------------------------------------------------ *)
(* The write path                                                       *)
(* ------------------------------------------------------------------ *)

\* add_points_transaction that puts the new row first
add_points_transaction_first(customer_id, points, transaction_type, note) ==
    <<[customer_id      |-> customer_id,
       points_change    |-> points,
       transaction_type |-> transaction_type,
       note             |-> note,
       timestamp        |-> CurrentTimestamp]>> \o ledger

\* the table after INSERT INTO PointsLedger (...) VALUES (?, ?, ?, ?) and commit
add_points_transaction(customer_id, points, transaction_type, note) ==
    Append(ledger, [customer_id      |-> customer_id,
                    points_change    |-> points,
                    transaction_type |-> transaction_type,
                    note             |-> note,
                    timestamp        |-> CurrentTimestamp])

\* int(purchase_amount * POINTS_PER_DOLLAR), the amount given in cents
PointsToAdd(cents) == (cents * POINTS_PER_DOLLAR) \div 100

(* ------------------------------------------------------------------ *)
(* Script runs                                                          *)
(* ------------------------------------------------------------------ *)

NoLocals ==
    [customer_id |-> 0, points |-> 0, transaction_type |-> "", note |-> <<>>,
     current_balance |-> 0, reward |-> "", current_year |-> 0, new_tier |-> ""]

Finish(s) ==
    /\ pc' = [pc EXCEPT ![s] = "idle"]
    /\ loc' = [loc EXCEPT ![s] = NoLocals]

Render(s, notice) == msgs' = [msgs EXCEPT ![s] = @ \cup {notice}]

\* an exception raised by a store operation inside a try block: the handler
\* renders its error notice and the run ends
Raise(s) ==
    /\ Render(s, "error")
    /\ Finish(s)
    /\ UNCHANGED <<ledger, tier, clock>>

Init ==
    /\ ledger = <<>>
    /\ tier = [c \in Customers |-> "Standard"]
    /\ clock = 0
    /\ pc = [s \in Sessions |-> "idle"]
    /\ loc = [s \in Sessions |-> NoLocals]
    /\ msgs = [s \in Sessions |-> {}]

\* the wall clock advances
Tick ==
    /\ clock < MaxTick
    /\ clock' = clock + 1
    /\ UNCHANGED <<ledger, tier, pc, loc, msgs>>

\* "Add Points for Purchase" pressed: validation, customer lookup, points
AddPointsClick(s, in) ==
    /\ pc[s] = "idle"
    /\ \E customer_email \in in.emails, purchase_amount \in in.amounts,
          order_id \in OrderInputs :
        IF customer_email = "" \/ purchase_amount = 0 \/ order_id = ""
        THEN /\ msgs' = [msgs EXCEPT ![s] = {"warning"}]
             /\ UNCHANGED <<pc, loc>>
        ELSE LET customer == get_customer_by_email(customer_email)
             IN  IF customer.found
                 THEN /\ msgs' = [msgs EXCEPT ![s] = {}]
                      /\ pc' = [pc EXCEPT ![s] = "insert"]
                      /\ loc' = [loc EXCEPT ![s] =
                            [NoLocals EXCEPT
                               !.customer_id = customer.customer_id,
                               !.points = PointsToAdd(purchase_amount),
                               !.transaction_type = "earn",
                               !.note = <<"Order #", order_id>>]]
                 ELSE /\ msgs' = [msgs EXCEPT ![s] = {"not_found"}]
                      /\ UNCHANGED <<pc, loc>>
    /\ UNCHANGED <<ledger, tier, clock>>

\* "Adjust Points" pressed: validation, customer lookup
AdjustPointsClick(s, in) ==
    /\ pc[s] = "idle"
    /\ \E customer_email \in in.emails, points_to_adjust \in in.adjusts,
          reason \in ReasonInputs :
        IF customer_email = "" \/ points_to_adjust = 0 \/ reason = ""
        THEN /\ msgs' = [msgs EXCEPT ![s] = {"warning"}]
             /\ UNCHANGED <<pc, loc>>
        ELSE LET customer == get_customer_by_email(customer_email)
             IN  IF customer.found
                 THEN /\ msgs' = [msgs EXCEPT ![s] = {}]
                      /\ pc' = [pc EXCEPT ![s] = "insert"]
                      /\ loc' = [loc EXCEPT ![s] =
                            [NoLocals EXCEPT
                               !.customer_id = customer.customer_id,
                               !.points = points_to_adjust,
                               !.transaction_type = "manual_adjust",
                               !.note = <<reason>>]]
                 ELSE /\ msgs' = [msgs EXCEPT ![s] = {"not_found"}]
                      /\ UNCHANGED <<pc, loc>>
    /\ UNCHANGED <<ledger, tier, clock>>

\* InsertOk that also stores the tier of the new yearly spend
InsertOkWritesTier(s, in) ==
    /\ pc[s] = "insert"
    /\ Len(ledger) < in.cap
    /\ ledger' = add_points_transaction(loc[s].customer_id, loc[s].points,
                                        loc[s].transaction_type, loc[s].note)
    /\ tier' = [tier EXCEPT ![loc[s].customer_id] =
                    NewTier(SpendingInYear(ledger', loc[s].customer_id,
                                           CurrentYear))]
    /\ Render(s, "success")
    /\ pc' = [pc EXCEPT ![s] = "spend"]
    /\ UNCHANGED <<clock, loc>>

\* add_points_transaction inside the try block of the purchase and the
\* adjustment handler, then the success notice
InsertOk(s, in) ==
    /\ pc[s] = "insert"
    /\ Len(ledger) < in.cap
    /\ ledger' = add_points_transaction(loc[s].customer_id, loc[s].points,
                                        loc[s].transaction_type, loc[s].note)
    /\ Render(s, "success")
    /\ pc' = [pc EXCEPT ![s] = "spend"]
    /\ UNCHANGED <<tier, clock, loc>>

InsertFails(s) ==
    /\ pc[s] = "insert"
    /\ Raise(s)

\* update_customer_tier: the spending query and the new tier
TierSpend(s) ==
    /\ pc[s] = "spend"
    /\ loc' = [loc EXCEPT
                  ![s].current_year = CurrentYear,
                  ![s].new_tier = NewTier(get_customer_spending_this_year(
                                              loc[s].customer_id, CurrentYear))]
    /\ pc' = [pc EXCEPT ![s] = "read_tier"]
    /\ UNCHANGED <<ledger, tier, clock, msgs>>

\* TierRead that goes on to the UPDATE whatever the stored tier is
TierReadAlwaysWrites(s) ==
    /\ pc[s] = "read_tier"
    /\ pc' = [pc EXCEPT ![s] = "write_tier"]
    /\ UNCHANGED <<ledger, tier, clock, msgs, loc>>

\* TierRead that persists promotions only
TierReadUpgradeOnly(s) ==
    /\ pc[s] = "read_tier"
    /\ LET current_tier == tier[loc[s].customer_id]
       IN  IF loc[s].new_tier # current_tier /\ loc[s].new_tier = "Gold"
           THEN /\ pc' = [pc EXCEPT ![s] = "write_tier"]
                /\ UNCHANGED loc
           ELSE Finish(s)
    /\ UNCHANGED <<ledger, tier, clock, msgs>>

\* update_customer_tier: SELECT tier, and the comparison
TierRead(s) ==
    /\ pc[s] = "read_tier"
    /\ LET current_tier == tier[loc[s].customer_id]
       IN  IF loc[s].new_tier # current_tier
           THEN /\ pc' = [pc EXCEPT ![s] = "write_tier"]
                /\ UNCHANGED loc
           ELSE Finish(s)
    /\ UNCHANGED <<ledger, tier, clock, msgs>>

\* update_customer_tier: UPDATE Customers SET tier, commit, the notice
TierWrite(s) ==
    /\ pc[s] = "write_tier"
    /\ tier' = [tier EXCEPT ![loc[s].customer_id] = loc[s].new_tier]
    /\ Render(s, "tier_updated")
    /\ Finish(s)
    /\ UNCHANGED <<ledger, clock>>

\* a store operation of update_customer_tier raises
TierFails(s) ==
    /\ pc[s] \in {"spend", "read_tier", "write_tier"}
    /\ Raise(s)

\* "Redeem Selected Reward" pressed: the script reruns, customer lookup
RedeemClick(s, in) ==
    /\ pc[s] = "idle"
    /\ \E customer_email \in in.emails \ {""}, reward \in in.rewards :
        LET customer == get_customer_by_email(customer_email)
        IN  IF customer.found
            THEN /\ msgs' = [msgs EXCEPT ![s] = {}]
                 /\ pc' = [pc EXCEPT ![s] = "balance"]
                 /\ loc' = [loc EXCEPT ![s] =
                       [NoLocals EXCEPT
                          !.customer_id = customer.customer_id,
                          !.reward = reward]]
            ELSE /\ msgs' = [msgs EXCEPT ![s] = {"not_found"}]
                 /\ UNCHANGED <<pc, loc>>
    /\ UNCHANGED <<ledger, tier, clock>>

\* RedeemBalance that keeps the balance the session already holds
RedeemBalanceCached(s) ==
    /\ pc[s] = "balance"
    /\ loc' = [loc EXCEPT ![s].current_balance = loc[s].current_balance]
    /\ pc' = [pc EXCEPT ![s] = "redeem"]
    /\ UNCHANGED <<ledger, tier, clock, msgs>>

\* current_balance = get_customer_point_balance(customer['customer_id'])
RedeemBalance(s) ==
    /\ pc[s] = "balance"
    /\ loc' = [loc EXCEPT ![s].current_balance =
                  get_customer_point_balance(loc[s].customer_id)]
    /\ pc' = [pc EXCEPT ![s] = "redeem"]
    /\ UNCHANGED <<ledger, tier, clock, msgs>>

\* Sufficient that only asks for a balance that is not negative
SufficientNonNegative(current_balance, selected_reward_cost) ==
    current_balance >= 0

\* Sufficient that asks for more points than the reward costs
SufficientStrict(current_balance, selected_reward_cost) ==
    current_balance > selected_reward_cost

\* elif current_balance >= selected_reward_cost
Sufficient(current_balance, selected_reward_cost) ==
    current_balance >= selected_reward_cost

\* the balance check passed: the negative entry is added
RedeemOk(s, in) ==
    /\ pc[s] = "redeem"
    /\ Sufficient(loc[s].current_balance, Rewards[loc[s].reward])
    /\ Len(ledger) < in.cap
    /\ ledger' = add_points_transaction(loc[s].customer_id,
                                        -Rewards[loc[s].reward], "redeem",
                                        <<"Redeemed: ", loc[s].reward>>)
    /\ Render(s, "success")
    /\ Finish(s)
    /\ UNCHANGED <<tier, clock>>

\* the balance check passed and add_points_transaction raises
RedeemFails(s) ==
    /\ pc[s] = "redeem"
    /\ Sufficient(loc[s].current_balance, Rewards[loc[s].reward])
    /\ Raise(s)

\* the balance check failed
RedeemInsufficient(s) ==
    /\ pc[s] = "redeem"
    /\ ~Sufficient(loc[s].current_balance, Rewards[loc[s].reward])
    /\ Render(s, "insufficient")
    /\ Finish(s)
    /\ UNCHANGED <<ledger, tier, clock>>

\* the "Customer View" page with an email entered: customer lookup, then the
\* balance and the history are read and shown
CustomerView(s, in) ==
    /\ pc[s] = "idle"
    /\ \E customer_email \in in.emails \ {""} :
        LET customer == get_customer_by_email(customer_email)
        IN  IF customer.found
            THEN msgs' = [msgs EXCEPT ![s] = {"viewed"}]
            ELSE msgs' = [msgs EXCEPT ![s] = {"not_found"}]
    /\ UNCHANGED <<ledger, tier, clock, pc, loc>>

\* the steps of update_customer_tier
TierSteps(s) ==
    \/ TierSpend(s)
    \/ TierRead(s)
    \/ TierWrite(s)
    \/ TierFails(s)

\* the "Add Points (Purchase)" page
PurchasePage(s, in) ==
    \/ AddPointsClick(s, in)
    \/ InsertOk(s, in)
    \/ InsertFails(s)
    \/ TierSteps(s)

\* the "Customer Service" page
ServicePage(s, in) ==
    \/ AdjustPointsClick(s, in)
    \/ InsertOk(s, in)
    \/ InsertFails(s)
    \/ TierSteps(s)

\* the "Redeem Reward" page
RedeemPage(s, in) ==
    \/ RedeemClick(s, in)
    \/ RedeemBalance(s)
    \/ RedeemOk(s, in)
    \/ RedeemFails(s)
    \/ RedeemInsufficient(s)

\* the session whose script runs happen one at a time
Operator == CHOOSE s \in Sessions : TRUE

\* one operator: the script runs happen one at a time, on any page
Next ==
    \/ Tick
    \/ CustomerView(Operator, SerialInputs)
    \/ PurchasePage(Operator, SerialInputs)
    \/ ServicePage(Operator, SerialInputs)
    \/ RedeemPage(Operator, SerialInputs)

Spec == Init /\ [][Next]_vars

\* one operator, and no store operation raises
NextReliable ==
    \/ Tick
    \/ CustomerView(Operator, SerialInputs)
    \/ AddPointsClick(Operator, SerialInputs)
    \/ AdjustPointsClick(Operator, SerialInputs)
    \/ InsertOk(Operator, SerialInputs)
    \/ TierSpend(Operator)
    \/ TierRead(Operator)
    \/ TierWrite(Operator)
    \/ RedeemClick(Operator, SerialInputs)
    \/ RedeemBalance(Operator)
    \/ RedeemOk(Operator, SerialInputs)
    \/ RedeemInsufficient(Operator)

SpecReliable == Init /\ [][NextReliable]_vars

\* two sessions purchase and redeem for one customer, their script runs
\* interleaved at the store operations
NextConcurrent ==
    \/ Tick
    \/ \E s \in Sessions :
        \/ PurchasePage(s, ConcurrentInputs)
        \/ RedeemPage(s, ConcurrentInputs)

SpecConcurrent == Init /\ [][NextConcurrent]_vars

\* one operator purchases and redeems within one year, and no store
\* operation raises
NextScenario ==
    \/ AddPointsClick(Operator, ScenarioInputs)
    \/ InsertOk(Operator, ScenarioInputs)
    \/ TierSpend(Operator)
    \/ TierRead(Operator)
    \/ TierWrite(Operator)
    \/ RedeemClick(Operator, ScenarioInputs)
    \/ RedeemBalance(Operator)
    \/ RedeemOk(Operator, ScenarioInputs)
    \/ RedeemInsufficient(Operator)

SpecScenario == Init /\ [][NextScenario]_vars

\* two sessions purchase for one customer within one year, their script runs
\* interleaved at the store operations, and no store operation raises
NextPurchases ==
    \E s \in Sessions :
        \/ AddPointsClick(s, ConcurrentInputs)
        \/ InsertOk(s, ConcurrentInputs)
        \/ TierSpend(s)
        \/ TierRead(s)
        \/ TierWrite(s)

SpecPurchases == Init /\ [][NextPurchases]_vars

\* one operator, purchases and redemptions only: the Customer Service page
\* is not used
NextNoAdjust ==
    \/ Tick
    \/ PurchasePage(Operator, SerialInputs)
    \/ RedeemPage(Operator, SerialInputs)

SpecNoAdjust == Init /\ [][NextNoAdjust]_vars

(* ------------------------------------------------------------------ *)
(* What the claims speak of                                             *)
(* ------------------------------------------------------------------ *)

\* the years the clock reaches
Years == {Instant(k)[1] : k \in 0..MaxTick}

\* the sum of points_change over the rows at the positions S
RECURSIVE SumAt(_, _)
SumAt(rows, S) ==
    IF S = {} THEN 0
    ELSE LET i == CHOOSE j \in S : TRUE
         IN  rows[i].points_change + SumAt(rows, S \ {i})

\* the sum of points_change over the customer's entries
LedgerSum(rows, c) ==
    SumAt(rows, {i \in 1..Len(rows) : rows[i].customer_id = c})

\* the points of the customer's 'earn' entries whose timestamp lies in year y
EarnedInYear(rows, c, y) ==
    SumAt(rows, {i \in 1..Len(rows) :
                    /\ rows[i].customer_id = c
                    /\ rows[i].transaction_type = "earn"
                    /\ rows[i].timestamp[1] = y})

\* the tier that the spend of year y classifies to
TierOfYear(rows, c, y) ==
    IF EarnedInYear(rows, c, y) >= GOLD_TIER_THRESHOLD * POINTS_PER_DOLLAR
    THEN "Gold" ELSE "Standard"

\* session s renders the notice in this step
Renders(s, notice) == notice \in msgs'[s] /\ notice \notin msgs[s]

\* the script run of session s ends in this step
Ends(s) == pc[s] # "idle" /\ pc'[s] = "idle"

\* the points_change of the ledger's entries, in order
PointsOf(rows) == [i \in 1..Len(rows) |-> rows[i].points_change]

\* the customer's entries, in ledger order
EntriesOf(rows, c) ==
    LET Mine(e) == e.customer_id = c IN SelectSeq(rows, Mine)

\* session s takes this step
StepOf(s) == pc'[s] # pc[s] \/ msgs'[s] # msgs[s] \/ loc'[s] # loc[s]

\* C1: for every customer the balance query returns the sum of points_change
\* over the customer's ledger entries (0 when there are none), and so does the
\* balance a redemption has just read.
C1_BalanceIsLedgerSum ==
    /\ \A c \in Customers :
          get_customer_point_balance(c) = LedgerSum(ledger, c)
    /\ \A s \in Sessions :
          pc[s] = "redeem" =>
              loc[s].current_balance = LedgerSum(ledger, loc[s].customer_id)

\* C1's case: a customer with two entries, one without any, and a redemption
\* that has read a nonzero balance
C1_Witness ==
    \E s \in Sessions, c, d \in Customers :
        /\ pc[s] = "redeem"
        /\ loc[s].customer_id = c
        /\ loc[s].current_balance # 0
        /\ Cardinality({i \in 1..Len(ledger) : ledger[i].customer_id = c}) = 2
        /\ {i \in 1..Len(ledger) : ledger[i].customer_id = d} = {}
        /\ get_customer_point_balance(d) = 0

\* C2: redemptions of one customer never take the balance below zero (with
\* balance 100 and two redemptions of 80 the balance ends 20 or 100, not -60).
C2_RedemptionAtomicity ==
    \A c \in Customers : LedgerSum(ledger, c) >= 0

\* C3: a redemption decided while the customer's balance is below the cost
\* renders the insufficient-points notice and leaves ledger and tiers as
\* they were.
C3_InsufficientHasNoEffect ==
    [][\A s \in Sessions :
          ( /\ pc[s] = "redeem"
            /\ Ends(s)
            /\ LedgerSum(ledger, loc[s].customer_id) < Rewards[loc[s].reward] )
          => ( /\ ledger' = ledger
               /\ tier' = tier
               /\ msgs'[s] = {"insufficient"} )]_vars

\* C3's case: a redemption was refused for a customer who has entries
C3_Witness ==
    \E s \in Sessions :
        /\ msgs[s] = {"insufficient"}
        /\ pc[s] = "idle"
        /\ Len(ledger) > 0
        /\ \E c \in Customers :
              /\ LedgerSum(ledger, c) < Rewards.r80
              /\ \E i \in 1..Len(ledger) : ledger[i].customer_id = c

\* C4: no ledger entry has points_change 0.
C4_NoZeroEntry ==
    \A i \in 1..Len(ledger) : ledger[i].points_change # 0

\* C5: every step leaves the earlier ledger a prefix of the later one and adds
\* at most one entry, and a step that renders the success notice adds exactly
\* one.
C5_AppendOnly ==
    [][ /\ Len(ledger') >= Len(ledger)
        /\ Len(ledger') <= Len(ledger) + 1
        /\ \A i \in 1..Len(ledger) : ledger'[i] = ledger[i]
        /\ \A s \in Sessions :
              Renders(s, "success") => Len(ledger') = Len(ledger) + 1 ]_vars

\* C5's case: two entries were appended and the tier evaluator has written
C5_Witness ==
    /\ Len(ledger) = 2
    /\ \E c \in Customers : tier[c] = "Gold"
    /\ \E s \in Sessions : "success" \in msgs[s]

\* C6: when a run of update_customer_tier ends without an exception, the
\* stored tier is Gold if and only if the points earned in the year of the
\* evaluation are at least 10 * 500.
C6_TierBoundary ==
    [][\A s \in Sessions :
          ( /\ pc[s] \in {"read_tier", "write_tier"}
            /\ Ends(s)
            /\ ~Renders(s, "error") )
          => LET c == loc[s].customer_id
                 y == loc[s].current_year
             IN  /\ tier'[c] = "Gold" <=> EarnedInYear(ledger', c, y) >= 5000
                 /\ tier'[c] = "Standard" <=> EarnedInYear(ledger', c, y) < 5000
      ]_vars

\* C6's case: after their evaluations, one customer with exactly 5000 points
\* earned this year is Gold and one with 4999 is Standard
C6_Witness ==
    \E c, d \in Customers :
        /\ \A s \in Sessions : pc[s] = "idle"
        /\ EarnedInYear(ledger, c, CurrentYear) = 5000
        /\ tier[c] = "Gold"
        /\ EarnedInYear(ledger, d, CurrentYear) = 4999
        /\ tier[d] = "Standard"
        /\ msgs[Operator] = {"success"}

\* C7: the yearly spend of year y counts exactly the 'earn' entries whose
\* timestamp lies in year y, the last second of the year included and the
\* first second of the next year excluded.
C7_YearBoundary ==
    \A c \in Customers, y \in Years :
        SpendingInYear(ledger, c, y).num = EarnedInYear(ledger, c, y)

\* C7's case: one customer earned at Y-12-31 23:59:59 and at (Y+1)-01-01
\* 00:00:00, and the spend of year Y counts the first entry alone
C7_Witness ==
    \E c \in Customers :
        /\ Len(ledger) = 2
        /\ ledger[1].customer_id = c /\ ledger[2].customer_id = c
        /\ ledger[1].transaction_type = "earn"
        /\ ledger[2].transaction_type = "earn"
        /\ ledger[1].points_change > 0 /\ ledger[2].points_change > 0
        /\ ledger[1].timestamp = <<BaseYear, 12, 31, 23, 59, 59>>
        /\ ledger[2].timestamp = <<BaseYear + 1, 1, 1, 0, 0, 0>>
        /\ SpendingInYear(ledger, c, BaseYear).num = ledger[1].points_change
        /\ SpendingInYear(ledger, c, BaseYear + 1).num = ledger[2].points_change

\* C8: after every write to the ledger the yearly spend is the points of the
\* year's 'earn' entries over 10, and a step that appends a 'redeem' or 'manual_adjust' entry changes no
\* customer's yearly spend and no tier the evaluator would classify.
C8_SpendFromEarnOnly ==
    [][ledger' # ledger =>
        /\ \A c \in Customers, y \in Years :
              SpendingInYear(ledger', c, y) =
                  [num |-> EarnedInYear(ledger', c, y), den |-> 10]
        /\ ( /\ Len(ledger') = Len(ledger) + 1
             /\ ledger'[Len(ledger')].transaction_type \in {"redeem", "manual_adjust"} )
           => \A c \in Customers, y \in Years :
                 /\ SpendingInYear(ledger', c, y) = SpendingInYear(ledger, c, y)
                 /\ NewTier(SpendingInYear(ledger', c, y)) =
                        NewTier(SpendingInYear(ledger, c, y)) ]_vars

\* C8's case: an adjustment of 5000 points was appended for a customer, the
\* evaluator ran and the customer is Standard
C8_Witness ==
    \E c \in Customers, i \in 1..Len(ledger) :
        /\ ledger[i].customer_id = c
        /\ ledger[i].transaction_type = "manual_adjust"
        /\ ledger[i].points_change = 5000
        /\ LedgerSum(ledger, c) >= 5000
        /\ tier[c] = "Standard"
        /\ pc[Operator] = "idle"
        /\ msgs[Operator] = {"success"}

\* C9: when a purchase, a redemption or an adjustment ends with its entry
\* appended and no exception, the customer's stored tier is the tier that the
\* spend of the year classifies to (the year of the evaluation, where one
\* ran).
C9_TierFollowsEveryTransaction ==
    [][\A s \in Sessions :
          ( /\ Ends(s)
            /\ "success" \in msgs'[s]
            /\ "error" \notin msgs'[s] )
          => LET c == loc[s].customer_id
                 y == IF pc[s] = "redeem" THEN CurrentYear ELSE loc[s].current_year
             IN  tier'[c] = TierOfYear(ledger', c, y) ]_vars

\* C10: no script run renders the error notice after its ledger entry is
\* committed (the success notice follows the commit at once).
C10_NoFailureAfterCommit ==
    \A s \in Sessions : "error" \in msgs[s] => "success" \notin msgs[s]

\* C11: a customer stored as Gold stops being Gold only in the UPDATE step of
\* a run of update_customer_tier for that customer (no other step, no clock
\* tick and no operation on another customer changes it), and a run for a
\* Gold customer whose points earned in the year of the evaluation are below
\* 5000, ending without an exception, leaves the customer Standard.
C11_DemotionIsReactive ==
    [][\A c \in Customers :
          /\ (tier[c] = "Gold" /\ tier'[c] # "Gold")
                => \E s \in Sessions :
                      /\ pc[s] = "write_tier"
                      /\ loc[s].customer_id = c
                      /\ loc[s].new_tier = "Standard"
          /\ \A s \in Sessions :
                ( /\ pc[s] \in {"read_tier", "write_tier"}
                  /\ Ends(s)
                  /\ ~Renders(s, "error")
                  /\ loc[s].customer_id = c
                  /\ tier[c] = "Gold"
                  /\ EarnedInYear(ledger, c, loc[s].current_year) < 5000 )
                => tier'[c] = "Standard" ]_vars

\* C11's case: a customer earned 5000 points in the first year, a purchase in
\* the next year ran the evaluator, and the customer is Standard again
C11_Witness ==
    \E c \in Customers :
        /\ EarnedInYear(ledger, c, BaseYear) >= 5000
        /\ CurrentYear = BaseYear + 1
        /\ EarnedInYear(ledger, c, BaseYear + 1) < 5000
        /\ ledger[Len(ledger)].customer_id = c
        /\ ledger[Len(ledger)].timestamp[1] = BaseYear + 1
        /\ tier[c] = "Standard"
        /\ "tier_updated" \in msgs[Operator]
        /\ pc[Operator] = "idle"

\* C12: the stored tiers change only in the UPDATE step of
\* update_customer_tier, and only for the customer of that run; a step that
\* appends a ledger entry, a page view, a customer lookup, and every step of
\* a redemption (successful or not) leave all tiers as they were; no step of
\* update_customer_tier changes the ledger or a balance.
C12_TierWrittenByEvaluatorOnly ==
    [][ /\ tier' # tier
            => \E s \in Sessions :
                  /\ pc[s] = "write_tier"
                  /\ \A c \in Customers \ {loc[s].customer_id} :
                        tier'[c] = tier[c]
        /\ ledger' # ledger => tier' = tier
        /\ \A s \in Sessions :
              (StepOf(s) /\ pc[s] \in {"idle", "insert", "balance", "redeem"})
                 => tier' = tier
        /\ \A s \in Sessions :
              (StepOf(s) /\ pc[s] \in {"spend", "read_tier", "write_tier"})
                 => /\ ledger' = ledger
                    /\ \A c \in Customers :
                          get_customer_point_balance(c)' =
                              get_customer_point_balance(c) ]_vars

\* C12's case: a customer made Gold by the evaluator has redeemed since, and
\* is still Gold
C12_Witness ==
    \E c \in Customers :
        /\ tier[c] = "Gold"
        /\ Len(ledger) = 2
        /\ ledger[2].customer_id = c
        /\ ledger[2].transaction_type = "redeem"
        /\ msgs[Operator] = {"success"}
        /\ pc[Operator] = "idle"

\* a step between two calls of a query that writes nothing to the ledger:
\* the clock advances, a tier is written, or a query itself runs
BetweenQueries ==
    /\ ledger' = ledger
    /\ \/ clock' # clock
       \/ tier' # tier
       \/ \E s \in Sessions : pc[s] \in {"balance", "spend"} /\ StepOf(s)

C14_EndToEndScenario ==
    [][\A s \in Sessions, c \in Customers :
          c = loc[s].customer_id =>
          /\ ( /\ pc[s] \in {"read_tier", "write_tier"} /\ Ends(s)
                /\ PointsOf(ledger) = <<1000>> )
                => /\ get_customer_point_balance(c)' = 1000
                   /\ tier'[c] = "Standard"
                   /\ msgs'[s] = {"success"}
          /\ ( /\ pc[s] \in {"read_tier", "write_tier"} /\ Ends(s)
                /\ PointsOf(ledger) = <<1000, 4500>> )
                => /\ get_customer_spending_this_year(c, CurrentYear)'.num =
                      550 * get_customer_spending_this_year(c, CurrentYear)'.den
                   /\ get_customer_point_balance(c)' = 5500
                   /\ tier[c] = "Standard" /\ tier'[c] = "Gold"
                   /\ msgs'[s] = {"success", "tier_updated"}
          /\ ( /\ pc[s] = "redeem" /\ Ends(s)
                /\ PointsOf(ledger) = <<1000, 4500>>
                /\ Rewards[loc[s].reward] = 800 )
                => /\ loc[s].current_balance = 5500
                   /\ PointsOf(ledger') = <<1000, 4500, -800>>
                   /\ ledger'[3].transaction_type = "redeem"
                   /\ get_customer_point_balance(c)' = 4700
                   /\ msgs'[s] = {"success"}
          /\ ( /\ pc[s] = "redeem" /\ Ends(s)
                /\ PointsOf(ledger) = <<1000, 4500, -800>>
                /\ Rewards[loc[s].reward] = 10000 )
                => /\ msgs'[s] = {"insufficient"}
                   /\ ledger' = ledger
                   /\ tier' = tier
                   /\ get_customer_point_balance(c)' = 4700 ]_vars

\* C14's case: the scenario has run to its end
C14_Witness ==
    /\ PointsOf(ledger) = <<1000, 4500, -800>>
    /\ \A i \in 1..3 : ledger[i].customer_id = EmailOf.alice
    /\ tier[EmailOf.alice] = "Gold"
    /\ get_customer_point_balance(EmailOf.alice) = 4700
    /\ msgs[Operator] = {"insufficient"}
    /\ pc[Operator] = "idle"

\* C15: a script run goes past the customer lookup only with the id of an
\* existing customer, so every ledger entry belongs to an existing customer;
\* the step that renders the not-found notice (on the purchase, the
\* redemption, the adjustment or the view page) renders nothing else, ends
\* the run and leaves ledger and tiers as they were.
C15_UnknownCustomerWritesNothing ==
    [][ /\ \A i \in 1..Len(ledger') : ledger'[i].customer_id \in Customers
        /\ \A s \in Sessions :
              (pc[s] = "idle" /\ pc'[s] # "idle")
                 => loc'[s].customer_id \in Customers
        /\ \A s \in Sessions :
              (StepOf(s) /\ "not_found" \in msgs'[s])
                 => /\ pc[s] = "idle" /\ pc'[s] = "idle"
                    /\ msgs'[s] = {"not_found"}
                    /\ ledger' = ledger
                    /\ tier' = tier ]_vars

\* C15's case: an operation for an unknown email was reported not found
\* while the ledger holds entries and a customer is Gold
C15_Witness ==
    /\ msgs[Operator] = {"not_found"}
    /\ pc[Operator] = "idle"
    /\ Len(ledger) > 0
    /\ \E c \in Customers : tier[c] = "Gold"

\* C16: the step that decides a redemption while the customer's balance is
\* at least the reward's cost (exactly the cost included) appends exactly one
\* entry, of type 'redeem', for that customer, with points_change = -cost,
\* renders the success notice, and leaves the customer's balance at the
\* previous balance minus the cost.
C16_RedemptionDebitsCost ==
    [][\A s \in Sessions, c \in Customers :
          ( /\ c = loc[s].customer_id
            /\ pc[s] = "redeem"
            /\ StepOf(s)
            /\ LedgerSum(ledger, c) >= Rewards[loc[s].reward] )
          => LET cost == Rewards[loc[s].reward]
                 n == Len(ledger) + 1
             IN  /\ Len(ledger') = n
                 /\ \A i \in 1..Len(ledger) : ledger'[i] = ledger[i]
                 /\ ledger'[n].customer_id = c
                 /\ ledger'[n].transaction_type = "redeem"
                 /\ ledger'[n].points_change = -cost
                 /\ LedgerSum(ledger', c) = LedgerSum(ledger, c) - cost
                 /\ get_customer_point_balance(c)' =
                        get_customer_point_balance(c) - cost
                 /\ msgs'[s] = {"success"} ]_vars

\* C16's case: a redemption of the 10000-point reward at a balance of
\* exactly 10000 succeeded and left the balance 0
C16_Witness ==
    \E c \in Customers :
        /\ Len(ledger) = 4
        /\ LedgerSum(SubSeq(ledger, 1, 3), c) = Rewards.r10000
        /\ ledger[4].customer_id = c
        /\ ledger[4].transaction_type = "redeem"
        /\ ledger[4].points_change = -Rewards.r10000
        /\ get_customer_point_balance(c) = 0
        /\ msgs[Operator] = {"success"}
        /\ pc[Operator] = "idle"

\* C17: in a run of update_customer_tier without an exception, the
\* comparison goes on to the UPDATE exactly when the new tier differs from
\* the stored one; the UPDATE stores the new tier, which differs from the one
\* stored before, and renders the tier notice; when the tiers are equal the
\* run ends with no tier written and no tier notice.
C17_EvaluatorWritesIffDifferent ==
    [][\A s \in Sessions, c \in Customers :
          c = loc[s].customer_id =>
          /\ (pc[s] = "read_tier" /\ StepOf(s) /\ ~Renders(s, "error"))
                => /\ tier' = tier
                   /\ "tier_updated" \notin msgs'[s]
                   /\ IF loc[s].new_tier # tier[c]
                      THEN pc'[s] = "write_tier"
                      ELSE pc'[s] = "idle"
          /\ (pc[s] = "write_tier" /\ StepOf(s) /\ ~Renders(s, "error"))
                => /\ loc[s].new_tier # tier[c]
                   /\ tier' = [tier EXCEPT ![c] = loc[s].new_tier]
                   /\ Renders(s, "tier_updated")
                   /\ pc'[s] = "idle"
          /\ (pc[s] \in {"read_tier", "write_tier"} /\ Ends(s)
                  /\ ~Renders(s, "error"))
                => ("tier_updated" \in msgs'[s] <=> tier'[c] # tier[c]) ]_vars

\* C17's case: a customer made Gold by one run of the evaluator has
\* purchased again, and the second run ended without a tier notice
C17_Witness ==
    \E c \in Customers :
        /\ Len(ledger) = 2
        /\ \A i \in 1..2 : /\ ledger[i].customer_id = c
                            /\ ledger[i].transaction_type = "earn"
        /\ EarnedInYear(ledger, c, CurrentYear) >= 5000
        /\ tier[c] = "Gold"
        /\ msgs[Operator] = {"success"}
        /\ pc[Operator] = "idle"

\* C18: whenever no purchase is under way (every script run has finished),
\* each customer's stored tier is the tier that the current-year spend over
\* the ledger classifies to.
C18_TierConsistentAfterConcurrentPurchases ==
    (\A s \in Sessions : pc[s] = "idle")
        => \A c \in Customers : tier[c] = TierOfYear(ledger, c, CurrentYear)

\* C19: with one script run at a time and no manual adjustment, in every
\* reachable state every customer's balance (the sum over the customer's
\* entries, and what the balance query returns) is at least 0, and so is the
\* balance a redemption holds.
C19_BalanceNeverNegative ==
    /\ \A c \in Customers :
          /\ get_customer_point_balance(c) >= 0
          /\ LedgerSum(ledger, c) >= 0
    /\ \A s \in Sessions :
          pc[s] = "redeem" => loc[s].current_balance >= 0

\* C19's case: a customer has purchased and redeemed, while another
\* customer's redemption at balance 0 was refused
C19_Witness ==
    \E c, d \in Customers :
        /\ c # d
        /\ Len(ledger) = 2
        /\ ledger[1].customer_id = c /\ ledger[1].transaction_type = "earn"
        /\ ledger[2].customer_id = c /\ ledger[2].transaction_type = "redeem"
        /\ get_customer_point_balance(c) = ledger[1].points_change - Rewards.r80
        /\ get_customer_point_balance(d) = 0
        /\ msgs[Operator] = {"insufficient"}
        /\ pc[Operator] = "idle"

\* C20: a step of an operation for one customer that writes to the ledger
\* or to a tier leaves every other customer's ledger entries, balance,
\* yearly spend (of every year) and stored tier as they were.
C20_CustomerIsolation ==
    [][(ledger' # ledger \/ tier' # tier) =>
          \A s \in Sessions, d \in Customers :
              (StepOf(s) /\ d # loc[s].customer_id)
                 => /\ EntriesOf(ledger', d) = EntriesOf(ledger, d)
                    /\ get_customer_point_balance(d)' =
                           get_customer_point_balance(d)
                    /\ \A y \in Years :
                          SpendingInYear(ledger', d, y) =
                              SpendingInYear(ledger, d, y)
                    /\ tier'[d] = tier[d] ]_vars

\* C20's case: one customer earned 5000 points and is Gold, then a purchase
\* for the other customer was recorded and evaluated; the first is still
\* Gold with the same balance, the other Standard
C20_Witness ==
    \E c, d \in Customers :
        /\ c # d
        /\ Len(ledger) = 2
        /\ ledger[1].customer_id = c /\ ledger[1].points_change = 5000
        /\ ledger[2].customer_id = d /\ ledger[2].points_change = 4999
        /\ tier[c] = "Gold" /\ tier[d] = "Standard"
        /\ get_customer_point_balance(c) = 5000
        /\ get_customer_point_balance(d) = 4999
        /\ msgs[Operator] = {"success"}
        /\ pc[Operator] = "idle"

====
